---- MODULE Spec2Model ----
(***************************************************************************)
(* A model of baserow-rs: the field mapper (src/src/mapper.rs) and the     *)
(* table handle with its row-request builder and query executor            *)
(* (src/src/api/table_operations.rs, src/src/lib.rs).                      *)
(*                                                                         *)
(* Strings are sequences of one-character strings, so that parsing a key   *)
(* as a number, stripping the "field_" prefix and formatting               *)
(* "field_<id>" are computed character by character as the code does.      *)
(* Option<T> is a sequence of length 0 (None) or 1 (Some).  A HashMap is a *)
(* function on its finite key set; iterating a HashMap visits the keys in  *)
(* an order the caller cannot choose, which is a nondeterministic choice   *)
(* of a permutation of the keys.                                           *)
(***************************************************************************)
EXTENDS Integers, Sequences, FiniteSets, TLC

VARIABLES
    tm,          \* a TableMapper: [fields, ids_to_names, names_to_ids]
    prev_names,  \* names the registry resolved just before the last map_fields
    prev_ids,    \* ids the registry resolved just before the last map_fields
    calls,       \* number of map_fields calls made on tm (capped)
    op1,         \* the conversion applied to rec0: "none", "ids" or "names"
    rec0,        \* the record handed to the first conversion
    rec1,        \* Option: the record the first conversion returned
    op2,         \* the conversion applied to rec1: "none" or "ids"
    rec2,        \* Option: the record the second conversion returned
    cfg,         \* the client's Configuration: [jwt, database_token]
    table,       \* the caller's BaserowTable handle: [mapper : Option<TableMapper>]
    builder,     \* Option: the RowRequestBuilder under construction
    out,         \* the outcome of the last operation on the handle
    refresh,     \* an auto_map call in progress, statement by statement
    seen         \* Option: what a reader of the handle's mapping last observed

\* the two variables of a refresh in progress stand still in every action of
\* the mapper and in every action of the handle
refreshVars == <<refresh, seen>>
mapperVars == <<tm, prev_names, prev_ids, calls, op1, rec0, rec1, op2, rec2, refreshVars>>
handleVars == <<cfg, table, builder, out, refreshVars>>
vars == <<tm, prev_names, prev_ids, calls, op1, rec0, rec1, op2, rec2,
          cfg, table, builder, out, refresh, seen>>

----------------------------------------------------------------------------
(* Bounds of the model *)

\* longest field list handed to map_fields
MaxFields == 2
\* most entries of a record handed to a conversion
MaxRowKeys == 2
\* map_fields calls counted on one mapper
MaxCalls == 3
\* configuration calls made on one RowRequestBuilder
MaxBuilderCalls == 3

----------------------------------------------------------------------------
(* Option and strings *)

None == <<>>
Some(x) == <<x>>
IsSome(o) == Len(o) = 1
Unwrap(o) == o[1]

Digits == {"0", "1", "2", "3", "4", "5", "6", "7", "8", "9"}

DigitVal(c) ==
    CASE c = "0" -> 0 [] c = "1" -> 1 [] c = "2" -> 2 [] c = "3" -> 3
      [] c = "4" -> 4 [] c = "5" -> 5 [] c = "6" -> 6 [] c = "7" -> 7
      [] c = "8" -> 8 [] c = "9" -> 9

DigitChar(d) ==
    CASE d = 0 -> "0" [] d = 1 -> "1" [] d = 2 -> "2" [] d = 3 -> "3"
      [] d = 4 -> "4" [] d = 5 -> "5" [] d = 6 -> "6" [] d = 7 -> "7"
      [] d = 8 -> "8" [] d = 9 -> "9"

RECURSIVE DigitsValue(_)
\* the number written by a non-empty sequence of digits
DigitsValue(s) ==
    IF Len(s) = 1 THEN DigitVal(s[1])
    ELSE 10 * DigitsValue(SubSeq(s, 1, Len(s) - 1)) + DigitVal(s[Len(s)])

\* str::parse::<u64>: an optional leading "+", then one or more digits and
\* nothing else.  (The keys of the model are short: no value overflows u64.)
ParseU64(s) ==
    LET body == IF Len(s) >= 1 /\ s[1] = "+" THEN SubSeq(s, 2, Len(s)) ELSE s
    IN  IF Len(body) >= 1 /\ \A i \in 1..Len(body) : body[i] \in Digits
        THEN Some(DigitsValue(body))
        ELSE None

RECURSIVE ToDecimal(_)
\* Display of a u64: decimal digits without leading zeros
ToDecimal(n) ==
    IF n < 10 THEN <<DigitChar(n)>>
    ELSE ToDecimal(n \div 10) \o <<DigitChar(n % 10)>>

FieldPrefix == <<"f", "i", "e", "l", "d", "_">>

\* format!("field_{}", id)
FieldKey(id) == FieldPrefix \o ToDecimal(id)

\* str::strip_prefix
StripPrefix(s, p) ==
    IF Len(s) >= Len(p) /\ SubSeq(s, 1, Len(p)) = p
    THEN Some(SubSeq(s, Len(p) + 1, Len(s)))
    ELSE None

----------------------------------------------------------------------------
(* HashMap *)

EmptyMap == [k \in {} |-> 0]

\* HashMap::insert: the new value replaces the one the key had
Insert(m, k, v) == [x \in DOMAIN m \cup {k} |-> IF x = k THEN v ELSE m[x]]

\* HashMap::get
Lookup(m, k) == IF k \in DOMAIN m THEN Some(m[k]) ELSE None

RECURSIVE Perms(_)
\* the orders in which the keys of a set can be visited
Perms(S) ==
    IF S = {} THEN {<<>>}
    ELSE UNION {{<<x>> \o p : p \in Perms(S \ {x})} : x \in S}

----------------------------------------------------------------------------
(* TableMapper *)

\* TableMapper::new
NewMapper == [fields |-> <<>>, ids_to_names |-> EmptyMap, names_to_ids |-> EmptyMap]

RECURSIVE InsertFields(_, _, _)
\* the for_each of map_fields over fields[i..]
InsertFields(m, fields, i) ==
    IF i > Len(fields) THEN m
    ELSE InsertFields(
            [m EXCEPT !.ids_to_names = Insert(@, fields[i].id, fields[i].name),
                      !.names_to_ids = Insert(@, fields[i].name, fields[i].id)],
            fields, i + 1)

\* map_fields without the two clear() calls
map_fields_keep(m, fields) ==
    [InsertFields(m, fields, 1) EXCEPT !.fields = fields]

\* map_fields keeping the first field of a name or id instead of the last
map_fields_first(m, fields) ==
    LET rev == [i \in 1..Len(fields) |-> fields[Len(fields) + 1 - i]]
    IN  [InsertFields([m EXCEPT !.ids_to_names = EmptyMap,
                                !.names_to_ids = EmptyMap], rev, 1)
            EXCEPT !.fields = fields]

\* FieldMapper::map_fields
map_fields(m, fields) ==
    [InsertFields([m EXCEPT !.ids_to_names = EmptyMap,
                            !.names_to_ids = EmptyMap], fields, 1)
        EXCEPT !.fields = fields]

\* FieldMapper::get_field_id
get_field_id(m, name) == Lookup(m.names_to_ids, name)

\* FieldMapper::get_field_name
get_field_name(m, id) == Lookup(m.ids_to_names, id)

RECURSIVE ids_fold(_, _, _, _, _)
\* the loop of convert_to_field_ids over the keys order[i..]
ids_fold(m, row, order, i, converted) ==
    IF i > Len(order) THEN converted
    ELSE LET key == order[i]
             id  == get_field_id(m, key)
         IN  ids_fold(m, row, order, i + 1,
                 IF IsSome(id)
                 THEN Insert(converted, FieldKey(Unwrap(id)), row[key])
                 ELSE Insert(converted, key, row[key]))

RECURSIVE ids_fold_drop(_, _, _, _, _)
\* the loop of convert_to_field_ids without the insert of an unresolved key
ids_fold_drop(m, row, order, i, converted) ==
    IF i > Len(order) THEN converted
    ELSE LET key == order[i]
             id  == get_field_id(m, key)
         IN  ids_fold_drop(m, row, order, i + 1,
                 IF IsSome(id)
                 THEN Insert(converted, FieldKey(Unwrap(id)), row[key])
                 ELSE converted)

\* convert_to_field_ids dropping the entries whose key is not a field name
convert_to_field_ids_drop(m, row, order) == ids_fold_drop(m, row, order, 1, EmptyMap)

\* convert_to_field_ids keeping every key verbatim
convert_to_field_ids_verbatim(m, row, order) ==
    [k \in {order[j] : j \in 1..Len(order)} |-> row[k]]

\* TableMapper::convert_to_field_ids, the row visited in the given order
convert_to_field_ids(m, row, order) == ids_fold(m, row, order, 1, EmptyMap)

RECURSIVE names_fold_prefixed_only(_, _, _, _, _)
\* the loop of convert_to_field_names without the attempt on a bare number
names_fold_prefixed_only(m, row, order, i, converted) ==
    IF i > Len(order) THEN converted
    ELSE LET key      == order[i]
             stripped == StripPrefix(key, FieldPrefix)
             prefixed == IF IsSome(stripped) THEN ParseU64(Unwrap(stripped)) ELSE None
             byPrefix == IF IsSome(prefixed)
                         THEN get_field_name(m, Unwrap(prefixed)) ELSE None
         IN  names_fold_prefixed_only(m, row, order, i + 1,
                 IF IsSome(byPrefix) THEN Insert(converted, Unwrap(byPrefix), row[key])
                 ELSE Insert(converted, key, row[key]))

\* convert_to_field_names resolving only "field_<n>" keys
convert_to_field_names_prefixed_only(m, row, order) ==
    names_fold_prefixed_only(m, row, order, 1, EmptyMap)

RECURSIVE names_fold(_, _, _, _, _)
\* the loop of convert_to_field_names over the keys order[i..]
names_fold(m, row, order, i, converted) ==
    IF i > Len(order) THEN converted
    ELSE LET key      == order[i]
             raw      == ParseU64(key)
             byRaw    == IF IsSome(raw) THEN get_field_name(m, Unwrap(raw)) ELSE None
             stripped == StripPrefix(key, FieldPrefix)
             prefixed == IF IsSome(stripped) THEN ParseU64(Unwrap(stripped)) ELSE None
             byPrefix == IF IsSome(prefixed)
                         THEN get_field_name(m, Unwrap(prefixed)) ELSE None
         IN  names_fold(m, row, order, i + 1,
                 IF IsSome(byRaw) THEN Insert(converted, Unwrap(byRaw), row[key])
                 ELSE IF IsSome(byPrefix) THEN Insert(converted, Unwrap(byPrefix), row[key])
                 ELSE Insert(converted, key, row[key]))

\* TableMapper::convert_to_field_names, the row visited in the given order
convert_to_field_names(m, row, order) == names_fold(m, row, order, 1, EmptyMap)


----------------------------------------------------------------------------
(* Configuration, table handle, row request *)

\* i32::to_string and u64::to_string of the numbers a request carries
IntToString(n) == IF n < 0 THEN <<"-">> \o ToDecimal(0 - n) ELSE ToDecimal(n)

\* bool::to_string
BoolToString(b) == IF b THEN <<"t", "r", "u", "e">> ELSE <<"f", "a", "l", "s", "e">>

\* Filter::as_str, for the operators of the model
as_str(f) ==
    CASE f = "Equal" -> <<"e", "q", "u", "a", "l">>
      [] f = "HigherThan" -> <<"h", "i", "g", "h", "e", "r", "_", "t", "h", "a", "n">>
      [] f = "Contains" -> <<"c", "o", "n", "t", "a", "i", "n", "s">>

\* ConfigBuilder::build: no JWT; the database token is the api_key, if given
Configurations == {[jwt |-> None, database_token |-> t] : t \in {None, Some(<<"t", "k">>)}}

\* Baserow::table_by_id: a handle with the table's id and a clone of the
\* client, without a mapper
NewTable == [mapper |-> None, id |-> Some(1), baserow |-> TRUE]

\* BaserowTable::default(): no id, no client, no mapper
DefaultTable == [mapper |-> None, id |-> None, baserow |-> FALSE]

\* the handles a caller can hold: from table_by_id, from Default, and
\* deserialized from a table listing (serde skips the client and the mapper)
Handles == {NewTable, DefaultTable, [DefaultTable EXCEPT !.id = Some(1)]}

\* RowRequest::default
DefaultRequest ==
    [view_id |-> None, order |-> None, filter |-> None,
     page_size |-> Some(100), page |-> Some(1), user_field_names |-> None]

\* RowRequestBuilder::new
NewBuilder ==
    [baserow |-> FALSE, table |-> None, request |-> DefaultRequest,
     \* what the model remembers of the calls made on the builder
     n |-> 0, via_query |-> FALSE, asked_names |-> FALSE]

\* the outcome record of an operation; sent lists the HTTP requests issued
Outcome(op, res, err, sent, value) ==
    [op |-> op, res |-> res, err |-> err, sent |-> sent, value |-> value]

NoOutcome == Outcome("none", "none", "none", <<>>, None)

\* no auto_map in progress: pc is the statement it is at, fields the list it
\* fetched, mapper its local TableMapper, i the field map_fields is at,
\* published the field list of the handle's mapping, if it has one
RefreshIdle ==
    /\ refresh = [pc |-> "idle", fields |-> <<>>, mapper |-> None, i |-> 0,
                  published |-> None]
    /\ seen = None

HandleIdle ==
    /\ cfg = [jwt |-> None, database_token |-> None]
    /\ table = NewTable
    /\ builder = None
    /\ out = NoOutcome
    /\ RefreshIdle

----------------------------------------------------------------------------
(* Deserialization into the caller's target type *)

\* JSON values of the model: two strings, a number and null
IsString(v) == v \in {"x", "y"}
IsNumber(v) == v = "n7"
IsNull(v) == v = "null"

\* the required field of the target struct (name: String)
StructField == <<"a">>

\* the optional field of the target struct (age: Option<i32>)
OptionalField == <<"b">>

\* serde_json::from_value::<T> of an object: T = "map" is
\* HashMap<String, Value>; T = "struct" is a struct with one required String
\* field and one optional number field, unknown keys ignored; a missing or
\* null optional field is None, a missing required field is an error
Deserialize(T, rec) ==
    IF T = "map" THEN Some(rec)
    ELSE IF ~(StructField \in DOMAIN rec /\ IsString(rec[StructField])) THEN None
    ELSE IF OptionalField \notin DOMAIN rec \/ IsNull(rec[OptionalField])
    THEN Some(StructField :> rec[StructField] @@ OptionalField :> None)
    ELSE IF IsNumber(rec[OptionalField])
    THEN Some(StructField :> rec[StructField] @@ OptionalField :> Some(rec[OptionalField]))
    ELSE None

\* deserialize_row without the conversion of the keys
deserialize_row_unconverted(m, T, row, order) == Deserialize(T, row)

\* TableMapper::deserialize_row
deserialize_row(m, T, row, order) == Deserialize(T, convert_to_field_names(m, row, order))

\* the shaping of get, taking the mapper path only for a struct target
shape_results_struct_only(mapper, T, rows, orders) ==
    IF IsSome(mapper) /\ T = "struct"
    THEN [i \in 1..Len(rows) |-> deserialize_row(Unwrap(mapper), T, rows[i], orders[i])]
    ELSE [i \in 1..Len(rows) |-> Deserialize(T, rows[i])]

\* the shaping of get: with a mapper every row goes through deserialize_row,
\* without one the rows are deserialized as they came
shape_results(mapper, T, rows, orders) ==
    IF IsSome(mapper)
    THEN [i \in 1..Len(rows) |-> deserialize_row(Unwrap(mapper), T, rows[i], orders[i])]
    ELSE [i \in 1..Len(rows) |-> Deserialize(T, rows[i])]

----------------------------------------------------------------------------
(* BaserowTable::get *)

Param(k, v) == [k |-> k, v |-> v]

\* a variant of field_key that ignores the mapping
field_key_raw(mapper, field) == field

\* the key a field is sent under: "field_<id>" if a mapper resolves the name
field_key(mapper, field) ==
    IF IsSome(mapper) /\ IsSome(get_field_id(Unwrap(mapper), field))
    THEN FieldKey(Unwrap(get_field_id(Unwrap(mapper), field)))
    ELSE field

\* the Authorization header of get
get_auth(c) ==
    IF IsSome(c.jwt) THEN Some(<<"J", "W", "T", " ">> \o Unwrap(c.database_token))
    ELSE IF IsSome(c.database_token) THEN Some(<<"T", "o", "k", "e", "n", " ">> \o Unwrap(c.database_token))
    ELSE None

RECURSIVE order_string(_, _, _, _)
\* the loop building order_str over the fields visited[i..]
order_string(mapper, order, visited, i) ==
    IF i > Len(visited) THEN <<>>
    ELSE (IF order[visited[i]] = "Desc" THEN <<"-">> ELSE <<>>)
            \o field_key(mapper, visited[i])
            \o order_string(mapper, order, visited, i + 1)

\* one query parameter per filter triple, field names sent verbatim
filter_params_raw(mapper, filter) ==
    [i \in 1..Len(filter) |->
        Param(<<"f", "i", "l", "t", "e", "r", "_", "_">> \o filter[i].field \o <<"_", "_">> \o as_str(filter[i].filter),
              filter[i].value)]

\* one query parameter per filter triple
filter_params(mapper, filter) ==
    [i \in 1..Len(filter) |->
        Param(<<"f", "i", "l", "t", "e", "r", "_", "_">> \o field_key(mapper, filter[i].field) \o <<"_", "_">>
                  \o as_str(filter[i].filter),
              filter[i].value)]

\* the query parameters of get, in the order the code adds them
get_params(mapper, request, visited) ==
    (IF IsSome(request.view_id)
        THEN <<Param(<<"v", "i", "e", "w", "_", "i", "d">>, IntToString(Unwrap(request.view_id)))>> ELSE <<>>)
    \o (IF IsSome(request.order)
        THEN <<Param(<<"o", "r", "d", "e", "r", "_", "b", "y">>, order_string(mapper, Unwrap(request.order), visited, 1))>>
        ELSE <<>>)
    \o (IF IsSome(request.filter) THEN filter_params(mapper, Unwrap(request.filter)) ELSE <<>>)
    \o (IF IsSome(request.page_size)
        THEN <<Param(<<"s", "i", "z", "e">>, IntToString(Unwrap(request.page_size)))>> ELSE <<>>)
    \o (IF IsSome(request.page)
        THEN <<Param(<<"p", "a", "g", "e">>, IntToString(Unwrap(request.page)))>> ELSE <<>>)
    \o (IF IsSome(request.user_field_names)
        THEN <<Param(<<"u", "s", "e", "r", "_", "f", "i", "e", "l", "d", "_", "n", "a", "m", "e", "s">>, BoolToString(Unwrap(request.user_field_names)))>>
        ELSE <<>>)

\* a variant of get_request that asks a view for its rows as the view defines
\* them, without the parameters of the query
get_request_view_only(mapper, c, request, visited) ==
    IF IsSome(request.view_id)
    THEN [method |-> "GET", endpoint |-> "view", auth |-> get_auth(c),
          params |-> <<>>, body |-> None]
    ELSE [method |-> "GET", endpoint |-> "rows", auth |-> get_auth(c),
          params |-> get_params(mapper, request, visited), body |-> None]

\* the GET request on the table-rows endpoint
get_request(mapper, c, request, visited) ==
    [method |-> "GET", endpoint |-> "rows", auth |-> get_auth(c),
     params |-> get_params(mapper, request, visited), body |-> None]

\* the pagination check of get, rejecting only zero
validate_pagination_zero_only(request) ==
    IF IsSome(request.page_size) /\ Unwrap(request.page_size) = 0 THEN "page_size"
    ELSE IF IsSome(request.page) /\ Unwrap(request.page) = 0 THEN "page"
    ELSE "ok"

\* the pagination check of get
validate_pagination(request) ==
    IF IsSome(request.page_size) /\ Unwrap(request.page_size) <= 0 THEN "page_size"
    ELSE IF IsSome(request.page) /\ Unwrap(request.page) <= 0 THEN "page"
    ELSE "ok"

\* get returning the records it could shape and leaving out the others
get_response_skip_failed(mapper, T, net, orders, sent) ==
    IF net.status = 200 /\ net.body.valid
    THEN LET shaped == shape_results(mapper, T, net.body.results, orders)
             kept   == SelectSeq(shaped, IsSome)
         IN  Outcome("get", "ok", "none", sent,
                     Some([count |-> net.body.count, next |-> net.body.next,
                           previous |-> net.body.previous,
                           results |-> [i \in 1..Len(kept) |-> Unwrap(kept[i])]]))
    ELSE Outcome("get", "err", "status", sent, None)

\* what get returns once the response is there
get_response(mapper, T, net, orders, sent) ==
    IF net.status = 200
    THEN IF ~net.body.valid THEN Outcome("get", "err", "json", sent, None)
         ELSE LET shaped == shape_results(mapper, T, net.body.results, orders)
              IN  IF \A i \in 1..Len(shaped) : IsSome(shaped[i])
                  THEN Outcome("get", "ok", "none", sent,
                          Some([count |-> net.body.count, next |-> net.body.next,
                                previous |-> net.body.previous,
                                results |-> [i \in 1..Len(shaped) |-> Unwrap(shaped[i])]]))
                  ELSE Outcome("get", "err", "deserialize", sent, None)
    \* error_for_status() is Ok for every 2xx status, and unwrap_err() panics
    ELSE IF net.status >= 200 /\ net.status < 300
    THEN Outcome("get", "panic", "unwrap_err", sent, None)
    ELSE Outcome("get", "err", "status", sent, None)

\* BaserowTable::get::<T>(baserow, request); net is what the network answers:
\* status 0 stands for a transport failure
get(mapper, c, request, T, net, visited, orders) ==
    IF validate_pagination(request) # "ok"
    THEN Outcome("get", "err", validate_pagination(request), <<>>, None)
    ELSE IF IsSome(c.jwt) /\ ~IsSome(c.database_token)
    THEN Outcome("get", "panic", "unwrap", <<>>, None)
    ELSE LET sent == <<get_request(mapper, c, request, visited)>>
         IN  IF net.status = 0 THEN Outcome("get", "err", "transport", sent, None)
             ELSE get_response(mapper, T, net, orders, sent)

----------------------------------------------------------------------------
(* BaserowTable::create_one, get_one, update, delete *)

\* the Authorization header of create_one, get_one, update and delete
row_auth(c) ==
    IF IsSome(c.jwt) THEN Some(<<"J", "W", "T", " ">> \o Unwrap(c.jwt))
    ELSE IF IsSome(c.database_token) THEN Some(<<"T", "o", "k", "e", "n", " ">> \o Unwrap(c.database_token))
    ELSE None

\* the user_field_names query parameter of create_one, get_one and update
names_param(user_field_names) ==
    IF IsSome(user_field_names)
    THEN <<Param(<<"u", "s", "e", "r", "_", "f", "i", "e", "l", "d", "_", "n", "a", "m", "e", "s">>, BoolToString(Unwrap(user_field_names)))>>
    ELSE <<>>

\* a status other than 200 taken for a success with nothing to return
other_status_lenient(op, net, sent) == Outcome(op, "ok", "none", sent, None)

\* the arm of a status other than 200: error_for_status() is Ok for every
\* 2xx status, and unwrap_err() panics
other_status(op, net, sent) ==
    IF net.status >= 200 /\ net.status < 300
    THEN Outcome(op, "panic", "unwrap_err", sent, None)
    ELSE Outcome(op, "err", "status", sent, None)

\* the body create_one and update send, sent as the caller gave it
request_data_raw(mapper, data, order) == data

\* the body create_one and update send
request_data(mapper, data, order) ==
    IF IsSome(mapper) THEN convert_to_field_ids(Unwrap(mapper), data, order) ELSE data

\* the record create_one and update return for a 200 response
response_data(mapper, user_field_names, row, order) ==
    IF IsSome(mapper) /\ user_field_names # Some(TRUE)
    THEN convert_to_field_names(Unwrap(mapper), row, order)
    ELSE row

\* a variant of write_row that leaves user_field_names out on a mapped handle,
\* as the query builder does
write_row_names_suppressed(op, method, endpoint, mapper, c, data, user_field_names, net, body_order, row_order) ==
    LET sent == <<[method |-> method, endpoint |-> endpoint, auth |-> row_auth(c),
                   params |-> IF IsSome(mapper) THEN <<>> ELSE names_param(user_field_names),
                   body |-> Some(request_data(mapper, data, body_order))]>>
    IN  IF net.status = 0 THEN Outcome(op, "err", "transport", sent, None)
        ELSE IF net.status = 200
        THEN IF ~net.valid THEN Outcome(op, "err", "json", sent, None)
             ELSE Outcome(op, "ok", "none", sent,
                          Some(response_data(mapper, user_field_names, net.row, row_order)))
        ELSE other_status(op, net, sent)

\* create_one and update: method and endpoint apart, the same code
write_row(op, method, endpoint, mapper, c, data, user_field_names, net, body_order, row_order) ==
    LET sent == <<[method |-> method, endpoint |-> endpoint, auth |-> row_auth(c),
                   params |-> names_param(user_field_names),
                   body |-> Some(request_data(mapper, data, body_order))]>>
    IN  IF net.status = 0 THEN Outcome(op, "err", "transport", sent, None)
        ELSE IF net.status = 200
        THEN IF ~net.valid THEN Outcome(op, "err", "json", sent, None)
             ELSE Outcome(op, "ok", "none", sent,
                          Some(response_data(mapper, user_field_names, net.row, row_order)))
        ELSE other_status(op, net, sent)

\* BaserowTable::create_one(data, user_field_names)
create_one(mapper, c, data, user_field_names, net, body_order, row_order) ==
    write_row("create_one", "POST", "rows", mapper, c, data, user_field_names, net,
              body_order, row_order)

\* BaserowTable::update(id, data, user_field_names)
update(mapper, c, data, user_field_names, net, body_order, row_order) ==
    write_row("update", "PATCH", "row", mapper, c, data, user_field_names, net,
              body_order, row_order)

\* the shaping of get_one, deserializing directly when there is no mapper
get_one_shape_direct(mapper, T, row, order) ==
    IF T = "map" THEN [err |-> "none", value |-> Deserialize(T, row)]
    ELSE IF ~IsSome(mapper) THEN [err |-> "none", value |-> Deserialize(T, row)]
    ELSE [err |-> "none", value |-> deserialize_row(Unwrap(mapper), T, row, order)]

\* the shaping of get_one: a HashMap<String, Value> target takes the row as
\* it came, any other target needs the mapper
get_one_shape(mapper, T, row, order) ==
    IF T = "map" THEN [err |-> "none", value |-> Deserialize(T, row)]
    ELSE IF ~IsSome(mapper) THEN [err |-> "mapper_missing", value |-> None]
    ELSE [err |-> "none", value |-> deserialize_row(Unwrap(mapper), T, row, order)]

\* BaserowTable::get_one::<T>(id, user_field_names)
get_one(mapper, c, user_field_names, T, net, order) ==
    LET sent == <<[method |-> "GET", endpoint |-> "row", auth |-> row_auth(c),
                   params |-> names_param(user_field_names), body |-> None]>>
    IN  IF net.status = 0 THEN Outcome("get_one", "err", "transport", sent, None)
        ELSE IF net.status = 200
        THEN IF ~net.valid THEN Outcome("get_one", "err", "json", sent, None)
             ELSE LET shaped == get_one_shape(mapper, T, net.row, order)
                  IN  IF shaped.err # "none"
                      THEN Outcome("get_one", "err", shaped.err, sent, None)
                      ELSE IF IsSome(shaped.value)
                      THEN Outcome("get_one", "ok", "none", sent, shaped.value)
                      ELSE Outcome("get_one", "err", "deserialize", sent, None)
        ELSE other_status("get_one", net, sent)

\* BaserowTable::delete(id)
delete(c, net) ==
    LET sent == <<[method |-> "DELETE", endpoint |-> "row", auth |-> row_auth(c),
                   params |-> <<>>, body |-> None]>>
    IN  IF net.status = 0 THEN Outcome("delete", "err", "transport", sent, None)
        ELSE IF net.status = 200 THEN Outcome("delete", "ok", "none", sent, None)
        ELSE other_status("delete", net, sent)

----------------------------------------------------------------------------

(* Inputs *)

\* ids the server assigned to the fields of the model
FieldIds == {1, 2}

\* field names: two plain names and one that looks like an ID key
FieldNames == {<<"a">>, <<"b">>, FieldKey(2)}

\* a TableField, reduced to the two attributes the mapper reads
TableFields == [id : FieldIds, name : FieldNames]

RECURSIVE SeqsUpTo(_, _)
SeqsUpTo(S, n) ==
    IF n = 0 THEN {<<>>}
    ELSE LET shorter == SeqsUpTo(S, n - 1)
         IN  shorter \cup {Append(q, x) : q \in shorter, x \in S}

FieldLists == SeqsUpTo(TableFields, MaxFields)

\* record keys: field names, bare ids (one with a leading zero), ID keys of
\* mapped ids and of an id no field has, and the reserved key "id"
RowKeyUniverse ==
    {<<"a">>, <<"b">>, <<"1">>, <<"0", "1">>,
     FieldKey(1), FieldKey(2), FieldKey(3), <<"i", "d">>}

Values == {"x", "y"}

Rows ==
    UNION {[K -> Values] : K \in {K \in SUBSET RowKeyUniverse : Cardinality(K) <= MaxRowKeys}}

Names(fields) == {fields[i].name : i \in 1..Len(fields)}
Ids(fields) == {fields[i].id : i \in 1..Len(fields)}

----------------------------------------------------------------------------
(* The mapper on its own: map_fields called again and again *)

NoConversion ==
    /\ op1 = "none" /\ rec0 = EmptyMap /\ rec1 = None
    /\ op2 = "none" /\ rec2 = None

MapInit ==
    /\ HandleIdle
    /\ tm = NewMapper
    /\ prev_names = {} /\ prev_ids = {}
    /\ calls = 0
    /\ NoConversion

\* mapper.map_fields(fields)
MapFields ==
    \E fields \in FieldLists :
        /\ prev_names' = DOMAIN tm.names_to_ids
        /\ prev_ids' = DOMAIN tm.ids_to_names
        /\ tm' = map_fields(tm, fields)
        /\ calls' = IF calls < MaxCalls THEN calls + 1 ELSE calls
        /\ UNCHANGED <<op1, rec0, rec1, op2, rec2>>
        /\ UNCHANGED handleVars

MapNext == MapFields

MapSpec == MapInit /\ [][MapNext]_vars

----------------------------------------------------------------------------
(* The conversions, on a mapper that mapped some field list.  They take     *)
(* &self and leave the mapper as it is, so one behaviour converts one      *)
(* record and then, at most once, converts the record that came back.      *)

ConvInit ==
    /\ HandleIdle
    /\ \E fields \in FieldLists : tm = map_fields(NewMapper, fields)
    /\ prev_names = {} /\ prev_ids = {}
    /\ calls = 1
    /\ NoConversion

\* mapper.convert_to_field_names(row)
ConvertToFieldNames ==
    \E row \in Rows : \E order \in Perms(DOMAIN row) :
        /\ op1 = "none"
        /\ op1' = "names" /\ rec0' = row
        /\ rec1' = Some(convert_to_field_names(tm, row, order))
        /\ op2' = "none" /\ rec2' = None
        /\ UNCHANGED <<tm, prev_names, prev_ids, calls>>
        /\ UNCHANGED handleVars

\* mapper.convert_to_field_ids(row)
ConvertToFieldIds ==
    \E row \in Rows : \E order \in Perms(DOMAIN row) :
        /\ op1 = "none"
        /\ op1' = "ids" /\ rec0' = row
        /\ rec1' = Some(convert_to_field_ids(tm, row, order))
        /\ op2' = "none" /\ rec2' = None
        /\ UNCHANGED <<tm, prev_names, prev_ids, calls>>
        /\ UNCHANGED handleVars

\* mapper.convert_to_field_ids(r) on the record r the last conversion returned
ConvertResultToFieldIds ==
    /\ op1 # "none" /\ op2 = "none"
    /\ \E order \in Perms(DOMAIN Unwrap(rec1)) :
        /\ op2' = "ids"
        /\ rec2' = Some(convert_to_field_ids(tm, Unwrap(rec1), order))
    /\ UNCHANGED <<tm, prev_names, prev_ids, calls, op1, rec0, rec1>>
    /\ UNCHANGED handleVars

ConvNext == ConvertToFieldNames \/ ConvertToFieldIds \/ ConvertResultToFieldIds

ConvSpec == ConvInit /\ [][ConvNext]_vars

----------------------------------------------------------------------------
(* The table handle: schema discovery, the request builder, the query *)

\* field lists the fields endpoint answers with
ServerFieldLists ==
    {<<[id |-> 1, name |-> <<"a">>]>>,
     <<[id |-> 1, name |-> <<"a">>], [id |-> 2, name |-> <<"b">>]>>,
     <<[id |-> 1, name |-> <<"b">>]>>}

\* a RowsResponse as the server sends it; valid = FALSE is a body that is not
\* a RowsResponse
Body(count, next, results) ==
    [valid |-> TRUE, count |-> count, next |-> next, previous |-> None,
     results |-> results]

NoBody == [valid |-> FALSE, count |-> None, next |-> None, previous |-> None,
           results |-> <<>>]

\* rows keyed by field_<id>, by name, with an id no field has, with a number
\* and with null
ServerBodies ==
    {Body(Some(0), None, <<>>),
     Body(Some(1), None, <<(FieldKey(1) :> "x")>>),
     Body(Some(2), Some(<<"n", "e", "x", "t">>),
          <<(FieldKey(1) :> "x" @@ FieldKey(2) :> "n7"),
            (FieldKey(1) :> "y" @@ FieldKey(2) :> "null")>>),
     Body(None, None, <<(<<"a">> :> "x"), (FieldKey(3) :> "y")>>),
     NoBody}

\* what the network answers: status 0 stands for a transport failure
NetOutcomes ==
    {[status |-> 200, body |-> b] : b \in ServerBodies}
        \cup {[status |-> st, body |-> NoBody] : st \in {0, 201, 204, 404}}

TargetTypes == {"map", "struct"}
QueryFields == {<<"a">>, <<"z">>}
FilterOps == {"Equal", "HigherThan"}
FilterValues == {<<"1", "8">>}
Directions == {"Asc", "Desc"}
PageSizes == {0 - 1, 0, 25}
PageNumbers == {0 - 1, 0, 2}
ViewIds == {7}

\* an iteration order for every row of a response
RowOrders(rows) ==
    LET all == UNION {Perms(DOMAIN rows[i]) : i \in 1..Len(rows)}
    IN  {os \in [1..Len(rows) -> all] : \A i \in 1..Len(rows) : os[i] \in Perms(DOMAIN rows[i])}

\* the iteration orders of the request's order map
OrderVisits(request) ==
    IF IsSome(request.order) THEN Perms(DOMAIN Unwrap(request.order)) ELSE {<<>>}

Init ==
    /\ tm = NewMapper
    /\ prev_names = {} /\ prev_ids = {}
    /\ calls = 0
    /\ NoConversion
    /\ cfg \in Configurations
    /\ table = NewTable
    /\ builder = None
    /\ out = NoOutcome
    /\ RefreshIdle

\* auto_map dropping the old mapping before it fetches the fields
auto_map_reset(t, c, fnet) ==
    IF fnet.status = 200 /\ fnet.valid /\ (IsSome(c.jwt) \/ IsSome(c.database_token))
    THEN [table |-> [t EXCEPT !.mapper = Some(map_fields(NewMapper, fnet.fields))],
          out |-> Outcome("auto_map", "ok", "none", <<>>, None)]
    ELSE [table |-> [t EXCEPT !.mapper = None],
          out |-> Outcome("auto_map", "err", "status", <<>>, None)]

\* Baserow::table_fields, then the mapper built from the answer; fnet is what
\* the fields endpoint answers
auto_map(t, c, fnet) ==
    LET req == [method |-> "GET", endpoint |-> "fields",
                auth |-> IF IsSome(c.jwt) THEN Some(<<"J", "W", "T", " ">> \o Unwrap(c.jwt))
                         ELSE Some(<<"T", "o", "k", "e", "n", " ">> \o Unwrap(c.database_token)),
                params |-> <<>>, body |-> None]
    IN  IF ~IsSome(t.id)
        THEN [table |-> t, out |-> Outcome("auto_map", "err", "no_id", <<>>, None)]
        ELSE IF ~t.baserow
        THEN [table |-> t, out |-> Outcome("auto_map", "err", "no_client", <<>>, None)]
        ELSE IF ~IsSome(c.jwt) /\ ~IsSome(c.database_token)
        THEN [table |-> t, out |-> Outcome("auto_map", "err", "no_token", <<>>, None)]
        ELSE IF fnet.status = 0
        THEN [table |-> t, out |-> Outcome("auto_map", "err", "transport", <<req>>, None)]
        ELSE IF fnet.status # 200
        THEN [table |-> t, out |-> Outcome("auto_map", "err", "status", <<req>>, None)]
        ELSE IF ~fnet.valid
        THEN [table |-> t, out |-> Outcome("auto_map", "err", "json", <<req>>, None)]
        ELSE [table |-> [t EXCEPT !.mapper = Some(map_fields(NewMapper, fnet.fields))],
              out |-> Outcome("auto_map", "ok", "none", <<req>>, None)]

\* what the field listing answers: status 0 stands for a transport failure
FieldsOutcomes ==
    {[status |-> 200, valid |-> TRUE, fields |-> f] : f \in ServerFieldLists}
        \cup {[status |-> st, valid |-> FALSE, fields |-> <<>>] : st \in {0, 200, 404}}

\* table.auto_map()
AutoMap ==
    /\ builder = None /\ out.op = "none"
    /\ \E fnet \in FieldsOutcomes :
        /\ table' = auto_map(table, cfg, fnet).table
        \* next to the outcome, what the endpoint answered and the handle before
        /\ out' = auto_map(table, cfg, fnet).out @@ [fnet |-> fnet, was |-> table]
    /\ UNCHANGED <<cfg, builder>>
    /\ UNCHANGED mapperVars

\* table.query()
Query ==
    /\ builder = None /\ out.op = "none"
    /\ IF table.baserow
       THEN /\ builder' = Some([NewBuilder EXCEPT !.baserow = TRUE, !.table = Some(table),
                                                  !.via_query = TRUE])
            /\ out' = NoOutcome
       \* self.baserow.clone().unwrap() on a handle without a client
       ELSE /\ builder' = None
            /\ out' = Outcome("query", "panic", "unwrap", <<>>, None)
    /\ UNCHANGED <<cfg, table>>
    /\ UNCHANGED mapperVars

\* RowRequestBuilder::new()
BuilderNew ==
    /\ builder = None /\ out.op = "none"
    /\ builder' = Some(NewBuilder)
    /\ out' = NoOutcome
    /\ UNCHANGED <<cfg, table>>
    /\ UNCHANGED mapperVars

\* a configuration call on the builder, giving builder b
Configure(b) ==
    /\ IsSome(builder)
    /\ Unwrap(builder).n < MaxBuilderCalls
    /\ builder' = Some([b EXCEPT !.n = @ + 1])
    /\ UNCHANGED <<cfg, table, out>>
    /\ UNCHANGED mapperVars

\* builder.with_table(table)
WithTable == IsSome(builder) /\ Configure([Unwrap(builder) EXCEPT !.table = Some(table)])

\* builder.with_baserow(baserow)
WithBaserow == IsSome(builder) /\ Configure([Unwrap(builder) EXCEPT !.baserow = TRUE])

\* builder.view(id)
View ==
    /\ IsSome(builder)
    /\ \E id \in ViewIds : Configure([Unwrap(builder) EXCEPT !.request.view_id = Some(id)])

\* builder.size(size)
Size ==
    /\ IsSome(builder)
    /\ \E n \in PageSizes : Configure([Unwrap(builder) EXCEPT !.request.page_size = Some(n)])

\* builder.page(page)
Page ==
    /\ IsSome(builder)
    /\ \E n \in PageNumbers : Configure([Unwrap(builder) EXCEPT !.request.page = Some(n)])

\* user_field_names setting the flag whatever the table
user_field_names_always(b, enabled) ==
    [b EXCEPT !.request.user_field_names = Some(enabled)]

\* RowRequestBuilder::user_field_names
user_field_names(b, enabled) ==
    IF ~IsSome(b.table) \/ ~IsSome(Unwrap(b.table).mapper)
    THEN [b EXCEPT !.request.user_field_names = Some(enabled)]
    ELSE b

\* builder.user_field_names(enabled)
UserFieldNames ==
    /\ IsSome(builder)
    /\ \E enabled \in BOOLEAN :
          Configure([user_field_names(Unwrap(builder), enabled)
                        EXCEPT !.asked_names = @ \/ enabled])

\* RowRequestBuilder::order_by
order_by(b, field, direction) ==
    [b EXCEPT !.request.order =
        Some(Insert(IF IsSome(@) THEN Unwrap(@) ELSE EmptyMap, field, direction))]

\* builder.order_by(field, direction)
OrderBy ==
    /\ IsSome(builder)
    /\ \E field \in QueryFields, direction \in Directions :
          Configure(order_by(Unwrap(builder), field, direction))

\* RowRequestBuilder::filter_by
filter_by(b, field, filter_op, value) ==
    [b EXCEPT !.request.filter =
        Some(Append(IF IsSome(@) THEN Unwrap(@) ELSE <<>>,
                    [field |-> field, filter |-> filter_op, value |-> value]))]

\* builder.filter_by(field, filter_op, value)
FilterBy ==
    /\ IsSome(builder)
    /\ \E field \in QueryFields, filter_op \in FilterOps, value \in FilterValues :
          Configure(filter_by(Unwrap(builder), field, filter_op, value))

\* RowRequestBuilder::get::<T>: the table and the client must be there
builder_get(b, c, T, net, visited, orders) ==
    IF ~IsSome(b.table) \/ ~b.baserow
    THEN Outcome("get", "panic", "expect", <<>>, None)
    \* self.id.unwrap() of get, after the pagination check
    ELSE IF validate_pagination(b.request) = "ok" /\ ~IsSome(Unwrap(b.table).id)
    THEN Outcome("get", "panic", "unwrap", <<>>, None)
    ELSE get(Unwrap(b.table).mapper, c, b.request, T, net, visited, orders)

\* builder.get::<T>()
BuilderGet ==
    /\ IsSome(builder)
    /\ \E T \in TargetTypes, net \in NetOutcomes :
       \E visited \in OrderVisits(Unwrap(builder).request) :
       \E orders \in RowOrders(net.body.results) :
          out' = [builder_get(Unwrap(builder), cfg, T, net, visited, orders)
                    EXCEPT !.op = "get"]
                 @@ [T |-> T, net |-> net, by |-> Unwrap(builder)]
    /\ builder' = None
    /\ UNCHANGED <<cfg, table>>
    /\ UNCHANGED mapperVars

\* records a caller passes to create_one and update: a mapped name, a name
\* no field has, a name next to its own ID key, a number
CallerRecords ==
    {(<<"a">> :> "x"),
     (<<"a">> :> "x" @@ <<"z">> :> "y"),
     (<<"a">> :> "x" @@ FieldKey(1) :> "y"),
     (<<"b">> :> "n7")}

\* the record the row endpoints answer with: keyed by field_<id>, by name,
\* with an id no field has
ServerRows ==
    {(FieldKey(1) :> "x"),
     (FieldKey(1) :> "x" @@ FieldKey(2) :> "null"),
     (<<"a">> :> "x"),
     (FieldKey(3) :> "y" @@ <<"i", "d">> :> "n7")}

\* what the network answers on a row endpoint: status 0 stands for a
\* transport failure, valid = FALSE for a body that is not a JSON object
RowOutcomes ==
    {[status |-> 200, valid |-> TRUE, row |-> r] : r \in ServerRows}
        \cup {[status |-> st, valid |-> FALSE, row |-> EmptyMap] : st \in {0, 200, 201, 204, 404}}

\* the user_field_names argument of create_one, get_one and update
NameFlags == {None, Some(FALSE), Some(TRUE)}

\* create_one, get_one, update and delete start with
\* self.baserow.expect(..) and self.id.unwrap(): a handle without a client
\* or without an id makes them panic before anything is sent
on_handle(t, op, outcome) ==
    IF ~t.baserow THEN Outcome(op, "panic", "expect", <<>>, None)
    ELSE IF ~IsSome(t.id) THEN Outcome(op, "panic", "unwrap", <<>>, None)
    ELSE outcome

\* what the model remembers of a call on the handle, next to its outcome
Called(outcome, T, net, data, flag) ==
    outcome @@ [T |-> T, net |-> net, on |-> table, data |-> data,
                user_field_names |-> flag]

\* table.clone().create_one(data, user_field_names)
CreateOne ==
    /\ builder = None /\ out.op = "none"
    /\ \E data \in CallerRecords, flag \in NameFlags, net \in RowOutcomes :
       \E body_order \in Perms(DOMAIN data), row_order \in Perms(DOMAIN net.row) :
          out' = Called(on_handle(table, "create_one",
                            create_one(table.mapper, cfg, data, flag, net, body_order, row_order)),
                        "map", net, data, flag)
    /\ UNCHANGED <<cfg, table, builder>>
    /\ UNCHANGED mapperVars

\* table.clone().update(id, data, user_field_names)
Update ==
    /\ builder = None /\ out.op = "none"
    /\ \E data \in CallerRecords, flag \in NameFlags, net \in RowOutcomes :
       \E body_order \in Perms(DOMAIN data), row_order \in Perms(DOMAIN net.row) :
          out' = Called(on_handle(table, "update",
                            update(table.mapper, cfg, data, flag, net, body_order, row_order)),
                        "map", net, data, flag)
    /\ UNCHANGED <<cfg, table, builder>>
    /\ UNCHANGED mapperVars

\* table.clone().get_one::<T>(id, user_field_names)
GetOne ==
    /\ builder = None /\ out.op = "none"
    /\ \E T \in TargetTypes, flag \in NameFlags, net \in RowOutcomes :
       \E order \in Perms(DOMAIN net.row) :
          out' = Called(on_handle(table, "get_one",
                            get_one(table.mapper, cfg, flag, T, net, order)),
                        T, net, EmptyMap, flag)
    /\ UNCHANGED <<cfg, table, builder>>
    /\ UNCHANGED mapperVars

\* table.clone().delete(id)
Delete ==
    /\ builder = None /\ out.op = "none"
    /\ \E net \in RowOutcomes :
          out' = Called(on_handle(table, "delete", delete(cfg, net)),
                        "map", net, EmptyMap, None)
    /\ UNCHANGED <<cfg, table, builder>>
    /\ UNCHANGED mapperVars

\* the caller is done with the result of the last call; the calls above start
\* from here, so that a behaviour is a sequence of calls, each with its result
Drop ==
    /\ out.op # "none"
    /\ out' = NoOutcome
    /\ UNCHANGED <<cfg, table, builder>>
    /\ UNCHANGED mapperVars

Next ==
    \/ AutoMap
    \/ Query
    \/ BuilderNew
    \/ WithTable
    \/ WithBaserow
    \/ View
    \/ Size
    \/ Page
    \/ UserFieldNames
    \/ OrderBy
    \/ FilterBy
    \/ BuilderGet
    \/ CreateOne
    \/ GetOne
    \/ Update
    \/ Delete
    \/ Drop

Spec == Init /\ [][Next]_vars

----------------------------------------------------------------------------
(* A refresh of the mapping, statement by statement, next to a reader.      *)
(* auto_map owns its handle (mut self), builds the new TableMapper in a     *)
(* local variable and assigns it to self.mapper in one statement before it  *)
(* returns the handle; a reader reads the mapper of the handle it holds.    *)

\* a reader seeing the mapper the refresh is building, as it would if
\* auto_map rebuilt the handle's mapper in place
mapping_of_in_place(t, r) == IF IsSome(r.mapper) THEN r.mapper ELSE t.mapper

\* the mapping a reader of handle t observes: &self.mapper
mapping_of(t, r) == t.mapper

\* everything but the handle, the refresh and the reader's observation
restVars == <<tm, prev_names, prev_ids, calls, op1, rec0, rec1, op2, rec2,
              cfg, builder, out>>

RefreshInit ==
    /\ tm = NewMapper
    /\ prev_names = {} /\ prev_ids = {}
    /\ calls = 0
    /\ NoConversion
    /\ cfg \in {c \in Configurations : IsSome(c.database_token)}
    /\ table = NewTable
    /\ builder = None
    /\ out = NoOutcome
    /\ RefreshIdle

\* let fields = baserow.table_fields(id).await?
FetchFields ==
    /\ refresh.pc = "idle"
    /\ \E fnet \in FieldsOutcomes :
          IF fnet.status = 200 /\ fnet.valid
          THEN refresh' = [refresh EXCEPT !.pc = "new", !.fields = fnet.fields]
          ELSE UNCHANGED refresh
    /\ UNCHANGED <<table, seen>>
    /\ UNCHANGED restVars

\* let mut mapper = TableMapper::new()
NewLocal ==
    /\ refresh.pc = "new"
    /\ refresh' = [refresh EXCEPT !.pc = "clear_ids", !.mapper = Some(NewMapper)]
    /\ UNCHANGED <<table, seen>>
    /\ UNCHANGED restVars

\* map_fields: self.ids_to_names.clear()
ClearIds ==
    /\ refresh.pc = "clear_ids"
    /\ refresh' = [refresh EXCEPT !.pc = "clear_names",
                                  !.mapper = Some([Unwrap(@) EXCEPT !.ids_to_names = EmptyMap])]
    /\ UNCHANGED <<table, seen>>
    /\ UNCHANGED restVars

\* map_fields: self.names_to_ids.clear()
ClearNames ==
    /\ refresh.pc = "clear_names"
    /\ refresh' = [refresh EXCEPT !.pc = IF Len(refresh.fields) = 0 THEN "store" ELSE "insert_id",
                                  !.i = 1,
                                  !.mapper = Some([Unwrap(@) EXCEPT !.names_to_ids = EmptyMap])]
    /\ UNCHANGED <<table, seen>>
    /\ UNCHANGED restVars

\* map_fields: self.ids_to_names.insert(field.id, field.name.clone())
InsertId ==
    /\ refresh.pc = "insert_id"
    /\ LET field == refresh.fields[refresh.i]
       IN  refresh' = [refresh EXCEPT !.pc = "insert_name",
                          !.mapper = Some([Unwrap(@) EXCEPT
                              !.ids_to_names = Insert(@, field.id, field.name)])]
    /\ UNCHANGED <<table, seen>>
    /\ UNCHANGED restVars

\* map_fields: self.names_to_ids.insert(field.name.clone(), field.id)
InsertName ==
    /\ refresh.pc = "insert_name"
    /\ LET field == refresh.fields[refresh.i]
       IN  refresh' = [refresh EXCEPT
                          !.pc = IF refresh.i < Len(refresh.fields) THEN "insert_id" ELSE "store",
                          !.i = @ + 1,
                          !.mapper = Some([Unwrap(@) EXCEPT
                              !.names_to_ids = Insert(@, field.name, field.id)])]
    /\ UNCHANGED <<table, seen>>
    /\ UNCHANGED restVars

\* map_fields: self.fields = fields
StoreFields ==
    /\ refresh.pc = "store"
    /\ refresh' = [refresh EXCEPT !.pc = "publish",
                                  !.mapper = Some([Unwrap(@) EXCEPT !.fields = refresh.fields])]
    /\ UNCHANGED <<table, seen>>
    /\ UNCHANGED restVars

\* self.mapper = Some(mapper); Ok(self)
Publish ==
    /\ refresh.pc = "publish"
    /\ table' = [table EXCEPT !.mapper = refresh.mapper]
    /\ refresh' = [pc |-> "idle", fields |-> <<>>, mapper |-> None, i |-> 0,
                   published |-> Some(refresh.fields)]
    /\ UNCHANGED seen
    /\ UNCHANGED restVars

\* a reader looks at the mapping of the handle, at any moment; next to what it
\* observed, the field list of the mapping before the refresh, the list the
\* refresh fetched and the statement the refresh was at
ReadMapping ==
    /\ seen' = Some([mapper |-> mapping_of(table, refresh),
                     old |-> refresh.published,
                     new |-> IF refresh.pc = "idle" THEN None ELSE Some(refresh.fields),
                     at |-> refresh.pc])
    /\ UNCHANGED <<table, refresh>>
    /\ UNCHANGED restVars

RefreshNext ==
    \/ FetchFields
    \/ NewLocal
    \/ ClearIds
    \/ ClearNames
    \/ InsertId
    \/ InsertName
    \/ StoreFields
    \/ Publish
    \/ ReadMapping

RefreshSpec == RefreshInit /\ [][RefreshNext]_vars

----------------------------------------------------------------------------

(* The handlers under every Configuration value.  ConfigBuilder::build      *)
(* leaves jwt at None; the handlers read the field all the same.            *)

\* the values of Configuration's jwt, database_token, email and password
\* fields
AllConfigurations ==
    [jwt : {None, Some(<<"j", "w">>)}, database_token : {None, Some(<<"t", "k">>)},
     email : {None, Some(<<"e">>)}, password : {None, Some(<<"p">>)}]

\* what the token-auth endpoint answers: status 0 stands for a transport
\* failure, valid = FALSE for a body that is not a TokenResponse
TokenOutcomes ==
    {[status |-> 200, valid |-> TRUE, token |-> <<"t", "2">>]}
        \cup {[status |-> st, valid |-> FALSE, token |-> <<>>] : st \in {0, 200, 401}}

\* Baserow::token_auth: the outcome carries the configuration of the client it
\* returns
token_auth(c, net) ==
    IF ~IsSome(c.email) THEN Outcome("token_auth", "err", "missing_email", <<>>, None)
    ELSE IF ~IsSome(c.password) THEN Outcome("token_auth", "err", "missing_password", <<>>, None)
    ELSE LET sent == <<[method |-> "POST", endpoint |-> "token-auth", auth |-> None,
                        params |-> <<>>,
                        body |-> Some((<<"e", "m", "a", "i", "l">> :> Unwrap(c.email))
                                          @@ (<<"p", "a", "s", "s", "w", "o", "r", "d">> :> Unwrap(c.password)))]>>
         IN  IF net.status = 0 THEN Outcome("token_auth", "err", "transport", sent, None)
             ELSE IF net.status # 200 THEN Outcome("token_auth", "err", "status", sent, None)
             ELSE IF ~net.valid THEN Outcome("token_auth", "err", "json", sent, None)
             ELSE Outcome("token_auth", "ok", "none", sent,
                          Some([c EXCEPT !.database_token = Some(net.token)]))

\* baserow.token_auth(): the caller's client stays as it is, the new client
\* is the value of the call
TokenAuth ==
    /\ builder = None /\ out.op = "none"
    /\ \E net \in TokenOutcomes : out' = token_auth(cfg, net) @@ [net |-> net]
    /\ UNCHANGED <<cfg, table, builder>>
    /\ UNCHANGED mapperVars

AuthInit ==
    /\ tm = NewMapper
    /\ prev_names = {} /\ prev_ids = {}
    /\ calls = 0
    /\ NoConversion
    /\ cfg \in AllConfigurations
    /\ table \in Handles
    /\ builder = None
    /\ out = NoOutcome
    /\ RefreshIdle

AuthNext ==
    \/ TokenAuth
    \/ AutoMap
    \/ Query
    \/ BuilderGet
    \/ CreateOne
    \/ GetOne
    \/ Update
    \/ Delete
    \/ Drop

AuthSpec == AuthInit /\ [][AuthNext]_vars

----------------------------------------------------------------------------

(* Claims about the mapper *)

NoTwoShareAName(fields) ==
    \A i, j \in 1..Len(fields) : fields[i].name = fields[j].name => i = j

NoTwoShareAnId(fields) ==
    \A i, j \in 1..Len(fields) : fields[i].id = fields[j].id => i = j

\* the two indices answer as inverses of each other
MutualInverses ==
    /\ \A id \in FieldIds :
          IsSome(get_field_name(tm, id))
              => get_field_id(tm, Unwrap(get_field_name(tm, id))) = Some(id)
    /\ \A n \in FieldNames :
          IsSome(get_field_id(tm, n))
              => get_field_name(tm, Unwrap(get_field_id(tm, n))) = Some(n)

\* C1 as stated: after any sequence of map_fields calls, for every field list
\* passed, get_field_name and get_field_id are mutual inverses.
C1_Original == MutualInverses

\* C1, amended: after any sequence of map_fields calls whose last field list
\* has no two fields sharing a name and no two sharing an id, the two indices
\* are mutual inverses, and get_field_id(get_field_name(id)) = id and
\* get_field_name(get_field_id(name)) = name for every field of the list.
C1_MutualInverses ==
    (NoTwoShareAName(tm.fields) /\ NoTwoShareAnId(tm.fields)) =>
        /\ MutualInverses
        /\ \A i \in 1..Len(tm.fields) :
              /\ IsSome(get_field_name(tm, tm.fields[i].id))
              /\ get_field_id(tm, Unwrap(get_field_name(tm, tm.fields[i].id)))
                    = Some(tm.fields[i].id)
              /\ IsSome(get_field_id(tm, tm.fields[i].name))
              /\ get_field_name(tm, Unwrap(get_field_id(tm, tm.fields[i].name)))
                    = Some(tm.fields[i].name)

\* a second map_fields call mapped two distinct fields, renaming an id
C1_Witness ==
    /\ calls >= 2 /\ Len(tm.fields) = 2
    /\ NoTwoShareAName(tm.fields) /\ NoTwoShareAnId(tm.fields)
    /\ prev_names \ Names(tm.fields) # {}
    /\ prev_ids \cap Ids(tm.fields) # {}

\* C2: map_fields(F) replaces the whole registry: afterwards get_field_id
\* resolves exactly the names of F (each to the id of a field of F with that
\* name) and get_field_name exactly the ids of F, and every name or id only
\* the registry before the call resolved now resolves to None.
C2_ReplacesRegistry ==
    calls >= 1 =>
        /\ \A n \in FieldNames :
              /\ IsSome(get_field_id(tm, n)) <=> n \in Names(tm.fields)
              /\ IsSome(get_field_id(tm, n)) =>
                    \E i \in 1..Len(tm.fields) :
                        tm.fields[i] = [id |-> Unwrap(get_field_id(tm, n)), name |-> n]
        /\ \A id \in FieldIds :
              /\ IsSome(get_field_name(tm, id)) <=> id \in Ids(tm.fields)
              /\ IsSome(get_field_name(tm, id)) =>
                    \E i \in 1..Len(tm.fields) :
                        tm.fields[i] = [id |-> id, name |-> Unwrap(get_field_name(tm, id))]
        /\ \A n \in prev_names \ Names(tm.fields) : get_field_id(tm, n) = None
        /\ \A id \in prev_ids \ Ids(tm.fields) : get_field_name(tm, id) = None

\* a remap renamed a field that kept its id and dropped another id
C2_Witness ==
    /\ calls >= 2
    /\ \E n \in prev_names \ Names(tm.fields) : get_field_id(tm, n) = None
    /\ \E id \in prev_ids \ Ids(tm.fields) : get_field_name(tm, id) = None
    /\ prev_ids \cap Ids(tm.fields) # {}

----------------------------------------------------------------------------
(* Claims about the conversions *)

\* the key the claims expect convert_to_field_ids to write for key k
ExpectedIdKey(k) ==
    IF IsSome(get_field_id(tm, k))
    THEN FieldPrefix \o ToDecimal(Unwrap(get_field_id(tm, k)))
    ELSE k

\* C3 as stated: convert_to_field_ids rewrites only keys: a key get_field_id
\* resolves becomes "field_<id>", every other key is kept verbatim, and the
\* value of every input entry is found unchanged under its (rewritten) key.
C3_Original ==
    op1 = "ids" =>
        /\ DOMAIN Unwrap(rec1) = {ExpectedIdKey(k) : k \in DOMAIN rec0}
        /\ \A k \in DOMAIN rec0 :
              /\ ExpectedIdKey(k) \in DOMAIN Unwrap(rec1)
              /\ Unwrap(rec1)[ExpectedIdKey(k)] = rec0[k]

\* the number a key names: as a bare number, or after "field_"
BareId(k) == ParseU64(k)
PrefixedId(k) ==
    IF IsSome(StripPrefix(k, FieldPrefix))
    THEN ParseU64(Unwrap(StripPrefix(k, FieldPrefix)))
    ELSE None

BareMapped(k) == IsSome(BareId(k)) /\ IsSome(get_field_name(tm, Unwrap(BareId(k))))
PrefixedMapped(k) ==
    IsSome(PrefixedId(k)) /\ IsSome(get_field_name(tm, Unwrap(PrefixedId(k))))

\* the key the claims expect convert_to_field_names to write for key k
ExpectedNameKey(k) ==
    IF BareMapped(k) THEN Unwrap(get_field_name(tm, Unwrap(BareId(k))))
    ELSE IF PrefixedMapped(k) THEN Unwrap(get_field_name(tm, Unwrap(PrefixedId(k))))
    ELSE k

\* C4: convert_to_field_names resolves each key in two attempts: a key that
\* parses as a bare number naming a mapped id becomes that field's name;
\* otherwise a key "field_<n>" whose n is a mapped id becomes that field's
\* name; a key for which both attempts fail is kept verbatim.  The keys of
\* the result are exactly the keys so obtained.
C4_TwoAttempts ==
    op1 = "names" =>
        /\ \A k \in DOMAIN rec0 :
              /\ BareMapped(k) =>
                    Unwrap(get_field_name(tm, Unwrap(BareId(k)))) \in DOMAIN Unwrap(rec1)
              /\ (~BareMapped(k) /\ PrefixedMapped(k)) =>
                    Unwrap(get_field_name(tm, Unwrap(PrefixedId(k)))) \in DOMAIN Unwrap(rec1)
              /\ (~BareMapped(k) /\ ~PrefixedMapped(k)) => k \in DOMAIN Unwrap(rec1)
        /\ DOMAIN Unwrap(rec1) = {ExpectedNameKey(k) : k \in DOMAIN rec0}

\* one record held a bare mapped id and the "field_<n>" key of another mapped
\* id, and both came back under the two fields' names
C4_Witness ==
    /\ op1 = "names"
    /\ \E k \in DOMAIN rec0 : BareMapped(k)
    /\ \E k \in DOMAIN rec0 : ~BareMapped(k) /\ PrefixedMapped(k)
    /\ Cardinality(DOMAIN Unwrap(rec1)) = 2
    /\ DOMAIN Unwrap(rec1) \cap DOMAIN rec0 = {}

\* the first conversion mapped key k to a field name
MappedToName(k) == BareMapped(k) \/ PrefixedMapped(k)

\* C5 as stated: convert_to_field_ids(convert_to_field_names(record)) has the
\* original key of every entry whose key the first conversion mapped to a
\* name, and every unmapped key is unchanged through both conversions.
C5_Original ==
    (op1 = "names" /\ op2 = "ids") =>
        \A k \in DOMAIN rec0 :
            /\ MappedToName(k) => k \in DOMAIN Unwrap(rec2)
            /\ ~MappedToName(k) => (k \in DOMAIN Unwrap(rec1) /\ k \in DOMAIN Unwrap(rec2))

\* key k is "field_<id>" as convert_to_field_ids writes it, for a mapped id
\* whose name get_field_id resolves back to that id
CanonicalRoundTripKey(k) ==
    \E id \in FieldIds :
        /\ k = FieldPrefix \o ToDecimal(id)
        /\ IsSome(get_field_name(tm, id))
        /\ get_field_id(tm, Unwrap(get_field_name(tm, id))) = Some(id)

\* C5, amended: convert_to_field_ids(convert_to_field_names(record)) has the
\* original key of every entry whose key is the canonical "field_<id>" of a
\* mapped id whose name resolves back to that id, and every key that the first
\* conversion does not map and that is not itself a mapped field name is
\* unchanged through both conversions.
C5_RoundTrip ==
    (op1 = "names" /\ op2 = "ids") =>
        \A k \in DOMAIN rec0 :
            /\ CanonicalRoundTripKey(k) => k \in DOMAIN Unwrap(rec2)
            /\ (~MappedToName(k) /\ get_field_id(tm, k) = None) =>
                  (k \in DOMAIN Unwrap(rec1) /\ k \in DOMAIN Unwrap(rec2))

\* a round trip of a record with a canonical mapped key, turned into a name
\* in between, and a key neither conversion maps
C5_Witness ==
    /\ op1 = "names" /\ op2 = "ids"
    /\ \E k \in DOMAIN rec0 :
          CanonicalRoundTripKey(k) /\ k \notin DOMAIN Unwrap(rec1)
    /\ \E k \in DOMAIN rec0 : ~MappedToName(k) /\ get_field_id(tm, k) = None

\* key k has the form "field_<id>"
IsIdKey(k) == IsSome(PrefixedId(k))

\* C6 as stated: for every mapping, convert_to_field_ids returns a record
\* whose keys are all of the form "field_<id>" unchanged, and applying it
\* twice gives what applying it once gives.
C6_Original ==
    /\ (op1 = "ids" /\ \A k \in DOMAIN rec0 : IsIdKey(k)) => Unwrap(rec1) = rec0
    /\ (op1 = "ids" /\ op2 = "ids") => Unwrap(rec2) = Unwrap(rec1)

\* C6, amended: convert_to_field_ids returns unchanged a record whose keys are
\* all of the form "field_<id>" and none of them a mapped field name; and for
\* every mapping in which no field is named like an ID key, applying it twice
\* gives what applying it once gives.
C6_Idempotent ==
    /\ (/\ op1 = "ids"
        /\ \A k \in DOMAIN rec0 : IsIdKey(k) /\ get_field_id(tm, k) = None)
          => Unwrap(rec1) = rec0
    /\ (/\ op1 = "ids" /\ op2 = "ids"
        /\ \A i \in 1..Len(tm.fields) : ~IsIdKey(tm.fields[i].name))
          => Unwrap(rec2) = Unwrap(rec1)

\* an ID-keyed record of a mapped id went through the conversion twice, and
\* so did a record keyed by a field name
C6_Witness ==
    /\ op1 = "ids" /\ op2 = "ids"
    /\ rec0 # EmptyMap
    /\ \A k \in DOMAIN rec0 : IsIdKey(k) /\ get_field_id(tm, k) = None
    /\ \E k \in DOMAIN rec0 : PrefixedMapped(k)
    /\ \A i \in 1..Len(tm.fields) : ~IsIdKey(tm.fields[i].name)

----------------------------------------------------------------------------
(* Claims about the request builder and the query *)

\* the query ran on a builder that held a table and a client
GetRan == out.op = "get" /\ IsSome(out.by.table) /\ out.by.baserow

\* the mapper of the table the query ran on
GetMapper == Unwrap(out.by.table).mapper

HasParam(req, key) == \E i \in 1..Len(req.params) : req.params[i].k = key

\* C7: on a builder obtained from query() on a handle that has a schema
\* mapping, user_field_names(true) leaves the request without the flag, and
\* the HTTP request sent by get carries no user_field_names parameter.
C7_NamesFlagSuppressed ==
    /\ (/\ IsSome(builder) /\ Unwrap(builder).via_query
        /\ IsSome(Unwrap(Unwrap(builder).table).mapper))
          => Unwrap(builder).request.user_field_names = None
    /\ (GetRan /\ out.by.via_query /\ IsSome(GetMapper))
          => \A i \in 1..Len(out.sent) : ~HasParam(out.sent[i], <<"u", "s", "e", "r", "_", "f", "i", "e", "l", "d", "_", "n", "a", "m", "e", "s">>)

\* a query from query() on a mapped handle, after user_field_names(true),
\* sent its request
C7_Witness ==
    /\ GetRan /\ out.by.via_query /\ IsSome(GetMapper)
    /\ out.by.asked_names
    /\ Len(out.sent) = 1

\* the tokens of the two operators of the model, as the server expects them
FilterToken(f) == IF f = "Equal" THEN <<"e", "q", "u", "a", "l">> ELSE <<"h", "i", "g", "h", "e", "r", "_", "t", "h", "a", "n">>

\* the field part of a filter parameter, as the claim describes it
FilterField(mapper, field) ==
    IF IsSome(mapper) /\ field \in DOMAIN Unwrap(mapper).names_to_ids
    THEN <<"f", "i", "e", "l", "d", "_">> \o ToDecimal(Unwrap(mapper).names_to_ids[field])
    ELSE field

IsFilterParam(p) == Len(p.k) >= 8 /\ SubSeq(p.k, 1, 8) = <<"f", "i", "l", "t", "e", "r", "_", "_">>

\* the filter triples of a request, none if filter_by was never called
Triples(request) == IF IsSome(request.filter) THEN Unwrap(request.filter) ELSE <<>>

\* C8: a query that sends its request sends exactly one parameter
\* filter__<field>__<token>=<value> per filter triple added with filter_by,
\* <token> the operator's token and <field> "field_<id>" when the table has a
\* mapping that resolves the triple's field name, the raw field otherwise.
C8_OneParamPerTriple ==
    (GetRan /\ Len(out.sent) = 1) =>
        LET sentFilters == SelectSeq(out.sent[1].params, IsFilterParam)
            triples     == Triples(out.by.request)
        IN  /\ Len(sentFilters) = Len(triples)
            /\ \A i \in 1..Len(triples) :
                  /\ sentFilters[i].k =
                        <<"f", "i", "l", "t", "e", "r", "_", "_">> \o FilterField(GetMapper, triples[i].field)
                            \o <<"_", "_">> \o FilterToken(triples[i].filter)
                  /\ sentFilters[i].v = triples[i].value

\* a query on a mapped handle sent two filters, one on a mapped field name
\* and one on a name the mapping does not resolve
C8_Witness ==
    /\ GetRan /\ Len(out.sent) = 1 /\ IsSome(GetMapper)
    /\ Len(Triples(out.by.request)) = 2
    /\ \E i \in 1..2 : IsSome(get_field_id(Unwrap(GetMapper), Triples(out.by.request)[i].field))
    /\ \E i \in 1..2 : ~IsSome(get_field_id(Unwrap(GetMapper), Triples(out.by.request)[i].field))

\* C9: a query whose page size is <= 0 or whose page number is <= 0 returns
\* an error and issues no HTTP request; a query with both values positive
\* passes validation and issues its request.
C9_PaginationValidated ==
    GetRan =>
        LET size == Unwrap(out.by.request.page_size)
            page == Unwrap(out.by.request.page)
        IN  /\ (size <= 0 \/ page <= 0) => (out.res = "err" /\ out.sent = <<>>)
            /\ (size > 0 /\ page > 0) =>
                  (out.err \notin {"page_size", "page"} /\ Len(out.sent) = 1)

\* a query with a negative page size, and nothing else wrong, was refused
C9_Witness ==
    /\ GetRan
    /\ Unwrap(out.by.request.page_size) < 0 /\ Unwrap(out.by.request.page) > 0
    /\ out.res = "err" /\ out.sent = <<>>

\* the name convert_to_field_names gives key k under mapper m, as C4 has it
NameKeyUnder(m, k) ==
    LET bare == ParseU64(k)
        pre  == IF IsSome(StripPrefix(k, FieldPrefix))
                THEN ParseU64(Unwrap(StripPrefix(k, FieldPrefix))) ELSE None
    IN  IF IsSome(bare) /\ Unwrap(bare) \in DOMAIN m.ids_to_names
        THEN m.ids_to_names[Unwrap(bare)]
        ELSE IF IsSome(pre) /\ Unwrap(pre) \in DOMAIN m.ids_to_names
        THEN m.ids_to_names[Unwrap(pre)]
        ELSE k

\* C10: each successful query shapes its results by exactly one of two
\* paths, chosen only by whether the table handle has a schema mapping: with
\* a mapping every record has its keys converted from ids to names, whatever
\* the target type; without one every record is deserialized as the server
\* sent it.  One result per record, no record shaped by the other path.
C10_OnePathPerQuery ==
    (GetRan /\ out.res = "ok") =>
        LET rows    == out.net.body.results
            results == Unwrap(out.value).results
        IN  /\ Len(results) = Len(rows)
            /\ \A i \in 1..Len(rows) :
                  IF IsSome(GetMapper)
                  THEN IF out.T = "map"
                       THEN DOMAIN results[i] =
                                {NameKeyUnder(Unwrap(GetMapper), k) : k \in DOMAIN rows[i]}
                       ELSE \E k \in DOMAIN rows[i] :
                                /\ NameKeyUnder(Unwrap(GetMapper), k) = StructField
                                /\ results[i][StructField] = rows[i][k]
                  ELSE IF out.T = "map"
                       THEN results[i] = rows[i]
                       ELSE /\ StructField \in DOMAIN rows[i]
                            /\ results[i][StructField] = rows[i][StructField]

\* a query on a mapped handle returned two generic records, both with names
\* for keys, from rows the server keyed by field_<id>
C10_Witness ==
    /\ GetRan /\ out.res = "ok" /\ IsSome(GetMapper) /\ out.T = "map"
    /\ Len(out.net.body.results) = 2
    /\ \A i \in 1..2 :
          DOMAIN Unwrap(out.value).results[i] \cap DOMAIN out.net.body.results[i] = {}

----------------------------------------------------------------------------
(* Claims about typed results and the record operations *)

\* the fields of the target struct
StructFields == {StructField, OptionalField}

\* every key of the rows is "field_<id>"
KeyedById(rows) == \A i \in 1..Len(rows) : \A k \in DOMAIN rows[i] : IsIdKey(k)

\* the field named n of result holds what row had under "field_<id(n)>",
\* for a generic record as it is, for a struct as its field type reads it
Attributed(T, m, n, row, result) ==
    LET key == FieldKey(m.names_to_ids[n])
    IN  IF T = "map"
        THEN key \in DOMAIN row => (n \in DOMAIN result /\ result[n] = row[key])
        ELSE IF n = StructField
        THEN key \in DOMAIN row /\ result[n] = row[key]
        ELSE IF key \notin DOMAIN row \/ IsNull(row[key])
        THEN result[n] = None
        ELSE result[n] = Some(row[key])

\* C11: for a table mapped by auto_map and a rows response keyed by
\* field_<id>, a successful get::<T> returns one record per record of
\* results, in the same order, in which the field named n holds the value the
\* row had under field_<id(n)> (null giving None for an optional field), and
\* count, next and previous are returned as the server sent them.
C11_AttributedByName ==
    (GetRan /\ out.res = "ok" /\ IsSome(GetMapper) /\ KeyedById(out.net.body.results)) =>
        LET rows    == out.net.body.results
            value   == Unwrap(out.value)
            m       == Unwrap(GetMapper)
            names   == IF out.T = "map" THEN DOMAIN m.names_to_ids
                       ELSE StructFields \cap DOMAIN m.names_to_ids
        IN  /\ Len(value.results) = Len(rows)
            /\ \A i \in 1..Len(rows) : \A n \in names :
                  Attributed(out.T, m, n, rows[i], value.results[i])
            /\ value.count = out.net.body.count
            /\ value.next = out.net.body.next
            /\ value.previous = out.net.body.previous

\* a mapped handle got two structs from two rows keyed by field_<id>, the
\* second with a null under the optional field
C11_Witness ==
    /\ GetRan /\ out.res = "ok" /\ IsSome(GetMapper) /\ out.T = "struct"
    /\ KeyedById(out.net.body.results)
    /\ Len(out.net.body.results) = 2
    /\ OptionalField \in DOMAIN Unwrap(GetMapper).names_to_ids
    /\ Unwrap(out.value).results[1][OptionalField] = Some("n7")
    /\ Unwrap(out.value).results[2][OptionalField] = None
    /\ Unwrap(out.value).results[2][StructField] = "y"
    /\ IsSome(Unwrap(out.value).next)

\* a call on the handle itself ran: create_one, get_one, update or delete
RowCallRan == out.op \in {"create_one", "get_one", "update", "delete"}

\* create_one or update ran
WriteRan == out.op \in {"create_one", "update"}

\* the key a caller's key is sent under by a handle with mapping m
IdKeyUnder(m, k) ==
    IF k \in DOMAIN m.names_to_ids THEN <<"f", "i", "e", "l", "d", "_">> \o ToDecimal(m.names_to_ids[k]) ELSE k

\* C12: create_one and update on a handle with a schema mapping send a body
\* in which every caller key that is a mapped field name has been rewritten
\* to field_<id>, the other keys kept, and a value stays with its key unless
\* two keys are sent under the same one; on a handle without a mapping the
\* body is the caller's record with its keys unchanged.
C12_BodyKeysRewritten ==
    WriteRan =>
        LET body == Unwrap(out.sent[1].body)
            data == out.data
        IN  /\ Len(out.sent) = 1
            /\ IF IsSome(out.on.mapper)
               THEN LET m == Unwrap(out.on.mapper)
                    IN  /\ DOMAIN body = {IdKeyUnder(m, k) : k \in DOMAIN data}
                        /\ \A k \in DOMAIN data :
                              (\A j \in DOMAIN data \ {k} : IdKeyUnder(m, j) # IdKeyUnder(m, k))
                                  => body[IdKeyUnder(m, k)] = data[k]
               ELSE body = data

\* create_one on a mapped handle sent a record with a mapped name and a name
\* no field has: the first went out as field_<id>, the second as it was
C12_Witness ==
    /\ out.op = "create_one" /\ IsSome(out.on.mapper)
    /\ DOMAIN out.data = {<<"a">>, <<"z">>}
    /\ DOMAIN Unwrap(out.sent[1].body) = {FieldKey(1), <<"z">>}

\* the request went out and the row endpoint answered 200 with a JSON object
RowArrived == Len(out.sent) = 1 /\ out.net.status = 200 /\ out.net.valid

\* C13 as stated: get_one shapes its record by the two-path rule of a query:
\* on a handle with a schema mapping the record's keys are converted from
\* ids to names for every target type, the generic key-value map included;
\* on a handle without a mapping the record is deserialized directly (read
\* for the generic map; a custom target without a mapping is C14's case).
C13_Original ==
    (out.op = "get_one" /\ RowArrived) =>
        LET row == out.net.row
        IN  IF IsSome(out.on.mapper)
            THEN out.res = "ok" =>
                    IF out.T = "map"
                    THEN DOMAIN Unwrap(out.value) =
                            {NameKeyUnder(Unwrap(out.on.mapper), k) : k \in DOMAIN row}
                    ELSE \E k \in DOMAIN row :
                            /\ NameKeyUnder(Unwrap(out.on.mapper), k) = StructField
                            /\ Unwrap(out.value)[StructField] = row[k]
            ELSE out.T = "map" => (out.res = "ok" /\ out.value = Some(row))

\* the request went out and the rows endpoint answered 200 with a rows response
RowsArrived == Len(out.sent) = 1 /\ out.net.status = 200 /\ out.net.body.valid

\* get_one::<T> with a custom T on a handle without a mapping, the row there
CustomGetOneUnmapped ==
    out.op = "get_one" /\ out.T = "struct" /\ ~IsSome(out.on.mapper) /\ RowArrived

\* a query get::<T> with a custom T on a handle without a mapping, the rows there
CustomGetUnmapped ==
    GetRan /\ out.T = "struct" /\ ~IsSome(GetMapper) /\ RowsArrived

\* every operation with the generic key-value target succeeds, with or
\* without a mapping, once the server has answered 200 with a body it can read
GenericSucceeds ==
    /\ (GetRan /\ out.T = "map" /\ RowsArrived) => out.res = "ok"
    /\ (out.op \in {"create_one", "update", "get_one"} /\ out.T = "map" /\ RowArrived)
          => out.res = "ok"
    /\ (out.op = "delete" /\ out.net.status = 200) => out.res = "ok"

\* C14 as stated: both get_one::<T> and query get::<T> with a custom T on a
\* handle without a schema mapping return the 'mapping required' error instead
\* of a value, while every operation with the generic target succeeds in
\* either state.
C14_Original ==
    /\ CustomGetOneUnmapped => (out.res = "err" /\ out.err = "mapper_missing")
    /\ CustomGetUnmapped => (out.res = "err" /\ out.err = "mapper_missing")
    /\ GenericSucceeds

\* C14, amended: get_one::<T> with a custom T on a handle without a schema
\* mapping returns the 'mapping required' error instead of a value; a query
\* get::<T> with a custom T on such a handle never returns that error, it
\* deserializes the records as the server sent them and succeeds exactly when
\* every record has the fields of T; every operation with the generic target
\* succeeds in either state.
C14_MappingRequired ==
    /\ CustomGetOneUnmapped => (out.res = "err" /\ out.err = "mapper_missing")
    /\ CustomGetUnmapped =>
          /\ out.err # "mapper_missing"
          /\ (out.res = "ok") <=>
                (\A i \in 1..Len(out.net.body.results) :
                    IsSome(Deserialize("struct", out.net.body.results[i])))
    /\ GenericSucceeds

\* get_one::<T> with a custom T was refused on a handle without a mapping,
\* for a row that has the field of T
C14_Witness ==
    /\ CustomGetOneUnmapped
    /\ StructField \in DOMAIN out.net.row
    /\ out.res = "err" /\ out.err = "mapper_missing" /\ Len(out.sent) = 1

\* a successful auto_map leaves the handle with a mapping of the field list
\* the endpoint answered with
MappedAsFetched ==
    (out.op = "auto_map" /\ out.res = "ok") =>
        /\ IsSome(table.mapper)
        /\ Unwrap(table.mapper).fields = out.fnet.fields
        /\ DOMAIN Unwrap(table.mapper).names_to_ids = Names(out.fnet.fields)
        /\ DOMAIN Unwrap(table.mapper).ids_to_names = Ids(out.fnet.fields)

\* a step keeps a mapping the handle has, and gives it one only by a
\* successful auto_map
OneWayStep ==
    /\ IsSome(table.mapper) => IsSome(table'.mapper)
    /\ (~IsSome(table.mapper) /\ IsSome(table'.mapper))
          => (out'.op = "auto_map" /\ out'.res = "ok")
    /\ table' # table => out'.op = "auto_map"

\* C15: a table handle starts Unmapped, becomes Mapped only through a
\* successful auto_map and never reverts, whatever sequence of auto_map,
\* query, get, create_one, get_one, update and delete runs; re-running
\* auto_map on a Mapped handle yields a Mapped handle holding the newly
\* fetched field list.
C15_OneWayMapped ==
    /\ table = NewTable
    /\ [][OneWayStep]_vars
    /\ []MappedAsFetched

\* auto_map ran again on a Mapped handle and replaced its field list
C15_Witness ==
    /\ out.op = "auto_map" /\ out.res = "ok"
    /\ IsSome(out.was.mapper)
    /\ Unwrap(out.was.mapper).fields # Unwrap(table.mapper).fields
    /\ Unwrap(table.mapper).fields = out.fnet.fields

\* the key a row's key is read under when the results are shaped
ShapedKey(mapper, k) == IF IsSome(mapper) THEN NameKeyUnder(Unwrap(mapper), k) ELSE k

\* row has a key that gives the struct its required field
HasRequired(mapper, row) ==
    \E k \in DOMAIN row : ShapedKey(mapper, k) = StructField /\ IsString(row[k])

\* C16: a query has no partial success: if shaping any one record of results
\* fails (missing required field, wrong value type) get returns an error and
\* none of the records; it returns Ok only when every record was shaped, one
\* result per record, and a required field is never filled with a default.
C16_NoPartialSuccess ==
    (GetRan /\ RowsArrived) =>
        LET rows == out.net.body.results
        IN  /\ out.res \in {"ok", "err"}
            /\ out.res = "err" => out.value = None
            /\ (out.T = "struct" /\ \E i \in 1..Len(rows) : ~HasRequired(GetMapper, rows[i]))
                  => (out.res = "err" /\ out.err = "deserialize")
            /\ out.res = "ok" =>
                  /\ Len(Unwrap(out.value).results) = Len(rows)
                  /\ out.T = "struct" =>
                        \A i \in 1..Len(rows) : \E k \in DOMAIN rows[i] :
                            /\ ShapedKey(GetMapper, k) = StructField /\ IsString(rows[i][k])
                            /\ Unwrap(out.value).results[i][StructField] = rows[i][k]

\* a query for structs failed as a whole on two records of which the first
\* has the required field and the second has not
C16_Witness ==
    /\ GetRan /\ RowsArrived /\ out.T = "struct"
    /\ Len(out.net.body.results) = 2
    /\ HasRequired(GetMapper, out.net.body.results[1])
    /\ ~HasRequired(GetMapper, out.net.body.results[2])
    /\ out.res = "err" /\ out.err = "deserialize" /\ out.value = None

\* a query or a call on the handle ran
CallRan == GetRan \/ RowCallRan

\* the status the server answered with is not a success (2xx) status
NonSuccess(status) == status >= 100 /\ ~(status >= 200 /\ status < 300)

C18_Original ==
    (WriteRan /\ RowArrived) =>
        /\ out.res = "ok"
        /\ IF IsSome(out.on.mapper)
           THEN DOMAIN Unwrap(out.value) =
                    {NameKeyUnder(Unwrap(out.on.mapper), k) : k \in DOMAIN out.net.row}
           ELSE /\ Unwrap(out.value) = out.net.row
                /\ out.sent[1].params =
                      IF IsSome(out.user_field_names)
                      THEN <<[k |-> <<"u", "s", "e", "r", "_", "f", "i", "e", "l", "d", "_", "n", "a", "m", "e", "s">>,
                              v |-> IF Unwrap(out.user_field_names) THEN <<"t", "r", "u", "e">> ELSE <<"f", "a", "l", "s", "e">>]>>
                      ELSE <<>>

\* observed is the whole mapping of field list F: the list itself and both
\* indices, each entry in both; with no list, no mapping at all
WholeMappingOf(observed, F) ==
    IF ~IsSome(F) THEN observed = None
    ELSE /\ IsSome(observed)
         /\ LET m == Unwrap(observed)
                fields == Unwrap(F)
            IN  /\ m.fields = fields
                /\ DOMAIN m.names_to_ids = Names(fields)
                /\ DOMAIN m.ids_to_names = Ids(fields)
                /\ \A i \in 1..Len(fields) :
                      /\ m.names_to_ids[fields[i].name] = fields[i].id
                      /\ m.ids_to_names[fields[i].id] = fields[i].name

\* C19: a reader of a handle's schema mapping that runs concurrently with a
\* discovery refresh observes either the complete old mapping or the
\* complete new mapping, never an empty or partly rebuilt registry; and the
\* mapper the refresh publishes is the one map_fields builds in one call.
C19_AtomicRefresh ==
    /\ IsSome(seen) =>
          \/ WholeMappingOf(Unwrap(seen).mapper, Unwrap(seen).old)
          \/ /\ IsSome(Unwrap(seen).new)
             /\ WholeMappingOf(Unwrap(seen).mapper, Unwrap(seen).new)
    /\ refresh.pc = "publish" =>
          refresh.mapper = Some(map_fields(NewMapper, refresh.fields))

\* a reader looked while the refresh had filled one index of its new mapper
\* and not yet the other, for a field list other than the old one, and saw
\* the old mapping
C19_Witness ==
    /\ IsSome(seen)
    /\ Unwrap(seen).at = "insert_name"
    /\ IsSome(Unwrap(seen).old)
    /\ Unwrap(seen).new # Unwrap(seen).old
    /\ WholeMappingOf(Unwrap(seen).mapper, Unwrap(seen).old)

\* the Authorization header the claim gives a request under configuration c
ClaimedAuth(c) ==
    IF IsSome(c.jwt) THEN Some(<<"J", "W", "T", " ">> \o Unwrap(c.jwt))
    ELSE Some(<<"T", "o", "k", "e", "n", " ">> \o Unwrap(c.database_token))

----------------------------------------------------------------------------
(* Claims about the request and the outcome of the calls *)

\* the token of one ordered field: "-" for descending, then the field key
OrderToken(mapper, order, field) ==
    (IF order[field] = "Desc" THEN <<"-">> ELSE <<>>) \o FilterField(mapper, field)

RECURSIVE OrderTokens(_, _, _)
\* the tokens of the fields of p, one after the other
OrderTokens(mapper, order, p) ==
    IF p = <<>> THEN <<>>
    ELSE OrderToken(mapper, order, Head(p)) \o OrderTokens(mapper, order, Tail(p))

\* the values of the parameters of req named key
ParamValues(req, key) ==
    [i \in {j \in 1..Len(req.params) : req.params[j].k = key} |-> req.params[i].v]

\* C21: the order_by parameter of a query is the concatenation of one token
\* per ordered field, the token being the field key ("field_<id>" if the
\* mapping resolves the name, the raw name otherwise) prefixed with "-"
\* exactly when the direction is descending; without ordering the parameter
\* is absent.
C21_OrderByTokens ==
    (GetRan /\ Len(out.sent) = 1) =>
        LET req   == out.sent[1]
            order == out.by.request.order
            given == ParamValues(req, <<"o", "r", "d", "e", "r", "_", "b", "y">>)
        IN  IF IsSome(order)
            THEN /\ Cardinality(DOMAIN given) = 1
                 /\ \E p \in Perms(DOMAIN Unwrap(order)) :
                       \A i \in DOMAIN given :
                          given[i] = OrderTokens(GetMapper, Unwrap(order), p)
            ELSE DOMAIN given = {}

\* a mapped query ordered by a mapped field descending and an unknown field
\* ascending sent both tokens
C21_Witness ==
    /\ GetRan /\ Len(out.sent) = 1 /\ IsSome(GetMapper)
    /\ IsSome(out.by.request.order)
    /\ Unwrap(out.by.request.order) = (<<"a">> :> "Desc") @@ (<<"z">> :> "Asc")
    /\ get_field_id(Unwrap(GetMapper), <<"a">>) = Some(1)
    /\ \E i \in 1..Len(out.sent[1].params) :
          /\ out.sent[1].params[i].k = <<"o", "r", "d", "e", "r", "_", "b", "y">>
          /\ out.sent[1].params[i].v = <<"-", "f", "i", "e", "l", "d", "_", "1", "z">>


\* C22: when the field list given to map_fields holds two fields of the same
\* name, get_field_id(name) returns the id of the one that comes later in the
\* list.
C22_LaterFieldWins ==
    \A i, j \in 1..Len(tm.fields) :
        (/\ i < j
         /\ tm.fields[i].name = tm.fields[j].name
         /\ \A k \in (j + 1)..Len(tm.fields) : tm.fields[k].name # tm.fields[j].name)
            => get_field_id(tm, tm.fields[j].name) = Some(tm.fields[j].id)

\* map_fields was given two fields named "a" with ids 1 and then 2, and "a"
\* resolves to 2
C22_Witness ==
    /\ calls > 0
    /\ Len(tm.fields) = 2
    /\ tm.fields[1] = [id |-> 1, name |-> <<"a">>]
    /\ tm.fields[2] = [id |-> 2, name |-> <<"a">>]
    /\ get_field_id(tm, <<"a">>) = Some(2)


\* the status is one of the success (2xx) statuses
IsSuccess(status) == status >= 200 /\ status < 300

\* C23 as stated: delete sends a request without a body, and the status
\* alone decides the outcome: a success status gives Ok(()) whatever the body
\* of the answer, a non-success status gives an error.
C23_Original ==
    (out.op = "delete" /\ Len(out.sent) = 1 /\ out.net.status # 0) =>
        /\ out.sent[1].body = None
        /\ IsSuccess(out.net.status) => out.res = "ok"
        /\ ~IsSuccess(out.net.status) => out.res = "err"


\* C24: a query with a view id still goes to the table-rows endpoint, with
\* view_id as a query parameter, and the filter and order_by parameters of
\* the query are still sent alongside it.
C24_ViewKeepsParams ==
    (GetRan /\ Len(out.sent) = 1 /\ IsSome(out.by.request.view_id)) =>
        LET req     == out.sent[1]
            request == out.by.request
            views   == ParamValues(req, <<"v", "i", "e", "w", "_", "i", "d">>)
        IN  /\ req.method = "GET" /\ req.endpoint = "rows"
            /\ Cardinality(DOMAIN views) = 1
            /\ \A i \in DOMAIN views : views[i] = ToDecimal(Unwrap(request.view_id))
            /\ IsSome(request.order) <=> HasParam(req, <<"o", "r", "d", "e", "r", "_", "b", "y">>)
            /\ Len(SelectSeq(req.params, IsFilterParam)) = Len(Triples(request))
            /\ \A i \in 1..Len(Triples(request)) :
                  \E j \in 1..Len(req.params) :
                     /\ req.params[j].k =
                           <<"f", "i", "l", "t", "e", "r", "_", "_">> \o FilterField(GetMapper, Triples(request)[i].field)
                              \o <<"_", "_">> \o FilterToken(Triples(request)[i].filter)
                     /\ req.params[j].v = Triples(request)[i].value

\* a query with a view id, an ordering and a filter sent all three
C24_Witness ==
    /\ GetRan /\ Len(out.sent) = 1
    /\ out.by.request.view_id = Some(7)
    /\ IsSome(out.by.request.order) /\ Len(Triples(out.by.request)) = 1
    /\ HasParam(out.sent[1], <<"v", "i", "e", "w", "_", "i", "d">>)
    /\ HasParam(out.sent[1], <<"o", "r", "d", "e", "r", "_", "b", "y">>)
    /\ \E j \in 1..Len(out.sent[1].params) : IsFilterParam(out.sent[1].params[j])


\* the operations that need a JWT or a database token
TokenOps == {"auto_map", "get", "create_one", "get_one", "update", "delete"}

\* C25 as stated: an operation invoked on a client whose configuration lacks
\* the credentials it needs (email or password for token_auth; a JWT or a
\* database token for field listing, query, create, get-one, update and
\* delete) fails with an error before any HTTP request is sent.
C25_Original ==
    /\ (out.op = "token_auth" /\ (~IsSome(cfg.email) \/ ~IsSome(cfg.password)))
          => (out.res = "err" /\ out.sent = <<>>)
    /\ (/\ out.op \in TokenOps
        /\ table.baserow /\ IsSome(table.id)
        /\ ~IsSome(cfg.jwt) /\ ~IsSome(cfg.database_token))
          => (out.res = "err" /\ out.sent = <<>>)


\* C26 as stated: a request issued by get for a handle that has a schema
\* mapping never carries the user_field_names parameter, however the request
\* was built, also when user_field_names(true) was called on the builder
\* before with_table attached the mapped table.
C26_Original ==
    (GetRan /\ IsSome(GetMapper))
        => \A i \in 1..Len(out.sent) : ~HasParam(out.sent[i], <<"u", "s", "e", "r", "_", "f", "i", "e", "l", "d", "_", "n", "a", "m", "e", "s">>)


\* how many entries of the record rec hold the value v
Occurrences(rec, v) == Cardinality({k \in DOMAIN rec : rec[k] = v})

\* C27 as stated: convert_to_field_ids and convert_to_field_names return a
\* record with exactly as many entries as the input and the same collection
\* of values: no two input keys are rewritten to the same output key, so no
\* value is dropped or overwritten.
C27_Original ==
    op1 \in {"ids", "names"} =>
        /\ Cardinality(DOMAIN Unwrap(rec1)) = Cardinality(DOMAIN rec0)
        /\ \A v \in Values : Occurrences(Unwrap(rec1), v) = Occurrences(rec0, v)


\* C28 as stated: whatever status the server answers with, success statuses
\* other than 200 included, get, create_one, get_one, update and delete
\* return normally with Ok or Err; every status other than 200 yields Err
\* and no status makes the call abort.
C28_Original ==
    (CallRan /\ Len(out.sent) = 1 /\ out.net.status # 0) =>
        /\ out.res \in {"ok", "err"}
        /\ out.net.status # 200 => out.res = "err"


\* C29: create_one, update and get_one forward the caller's user_field_names
\* argument whatever the mapping state of the handle: Some(b) puts
\* user_field_names=b on the request of a Mapped and of an Unmapped handle
\* alike, None leaves the parameter out.
C29_NamesArgumentForwarded ==
    (out.op \in {"create_one", "update", "get_one"} /\ Len(out.sent) = 1) =>
        LET given == ParamValues(out.sent[1], <<"u", "s", "e", "r", "_", "f", "i", "e", "l", "d", "_", "n", "a", "m", "e", "s">>)
        IN  IF IsSome(out.user_field_names)
            THEN /\ Cardinality(DOMAIN given) = 1
                 /\ \A i \in DOMAIN given :
                       given[i] = IF Unwrap(out.user_field_names) THEN <<"t", "r", "u", "e">> ELSE <<"f", "a", "l", "s", "e">>
            ELSE DOMAIN given = {}

\* update on a mapped handle with Some(true) sent user_field_names=true
C29_Witness ==
    /\ out.op = "update" /\ Len(out.sent) = 1
    /\ IsSome(out.on.mapper)
    /\ out.user_field_names = Some(TRUE)
    /\ out.sent[1].params = <<Param(<<"u", "s", "e", "r", "_", "f", "i", "e", "l", "d", "_", "n", "a", "m", "e", "s">>, <<"t", "r", "u", "e">>)>>


\* auto_map cannot fetch the field list: the handle has no id or no client,
\* no credential is configured, the transport fails (status 0) or the fields
\* endpoint answers with a status other than 200
FetchFails ==
    \/ ~IsSome(out.was.id)
    \/ ~out.was.baserow
    \/ (~IsSome(cfg.jwt) /\ ~IsSome(cfg.database_token))
    \/ out.fnet.status # 200

\* C30: auto_map installs a mapping only after the field list was fetched
\* successfully: when the handle has no id or no client, no credential is
\* configured, the transport fails or the fields endpoint answers with a
\* non-200 status, auto_map returns an error, yields no handle and leaves
\* the caller's clones of the handle with the mapping they had.
C30_MapsOnlyAfterFetch ==
    out.op = "auto_map" =>
        /\ FetchFails => (out.res = "err" /\ out.value = None /\ table = out.was)
        /\ table # out.was =>
              /\ out.res = "ok" /\ ~FetchFails /\ out.fnet.valid
              /\ IsSome(table.mapper)
              /\ Unwrap(table.mapper).fields = out.fnet.fields

\* auto_map on a handle that was mapped before was answered 404: an error,
\* and the handle keeps its mapping
C30_Witness ==
    /\ out.op = "auto_map" /\ out.res = "err"
    /\ out.fnet.status = 404 /\ Len(out.sent) = 1
    /\ IsSome(out.was.mapper)
    /\ table = out.was

====
